---- MODULE Spec2Model ----
(***************************************************************************)
(* State-machine model of sleep_absolute: the four wait_until backends     *)
(* (_linux timerfd, _timer_create POSIX timer, _windows waitable timer,    *)
(* _darwin dispatch source), the asyncio future they resolve, the event    *)
(* loop's ready queue and the foreign threads that deliver completions,    *)
(* the package's choice of backend by sys.platform, the conversion of a    *)
(* timestamp into the native timer's units, and the modules kept beside    *)
(* the package (timerfd.py, wait_until_timerfd.py, wait_until_win.py).     *)
(***************************************************************************)
EXTENDS Integers, Sequences, FiniteSets, TLC

\* Number of wait slots.  A slot stands for the address of one wait's objects
\* (its context, its closure); a slot whose wait has been dropped is reused by
\* a later call, as id() and descriptor numbers are.
MaxWaits == 2
\* Total number of wait_until calls and duplicate completions in one behaviour.
MaxCalls == 2
\* Largest whole number of seconds, before or after the epoch, of a timestamp
\* handed to the conversion functions.
MaxSec == 1

Waits == 1 .. MaxWaits
Fds == 1 .. MaxWaits

VARIABLES
    platform,   \* sys.platform, as a sequence of characters
    naive,      \* the target_time of every call has no tzinfo
    ts,         \* the timestamp handed to a conversion function (see Timestamps)
    conv,       \* <<the conversion function's result>> (<<>>: not called)
    backend,    \* module whose wait_until is called in this behaviour
    calls,      \* wait_until calls and duplicate completions so far
    ready,      \* the event loop's FIFO of posted callbacks (loop._ready)
    loopPc,     \* position of the scheduler thread inside a running callback
    crashed,    \* the process took a fatal fault in a native call
    wt,         \* per slot: the call and its asyncio future (see WtInit)
    lx,         \* _linux: per slot, the descriptor and the closure's flag
    fdOpen,     \* _linux: open descriptor numbers
    readers,    \* _linux: descriptor -> slot whose _on_ready is registered (0: none)
    tc,         \* _timer_create: per slot, the _TimerContext and its kernel timer
    contexts,   \* _timer_create: keys present in the _contexts registry
    nt,         \* _timer_create: per key, notification threads in flight, by stage
    wn,         \* _windows: per slot, the timer handle and the proactor's wait
    dw,         \* _darwin: per slot, the _TimerContext, its source and its worker
    sleeper,    \* timerfd.py: the Sleeper, its descriptor and its two tasks
    standalone, \* wait_until_timerfd.py, wait_until_win.py: one call's timer and future
    ntodo       \* handles of the running loop iteration that have not run yet

inputVars == <<platform, naive, ts, conv>>
legacyVars == <<sleeper, standalone, ntodo>>
procVars == <<inputVars, legacyVars, backend, calls, crashed>>
loopVars == <<ready, loopPc>>
lxVars == <<lx, fdOpen, readers>>
tcVars == <<tc, contexts, nt>>
\* What the package's backends own; the modules beside the package leave it.
packageVars == <<inputVars, backend, calls, crashed, loopPc, wt, lxVars, tcVars, wn, dw>>
vars == <<procVars, loopVars, wt, lxVars, tcVars, wn, dw>>

----------------------------------------------------------------------------
(* The call, asyncio.Future and the loop's ready queue, as the backends    *)
(* use them.                                                               *)

\* st:        "idle" (no call), "returned" (future handed out), "raised"
\* failure:   the setup step that raised ("none" if none)
\* fut:       "none", "pending", "result", "cancelled"
\* cbs:       done-callbacks registered on the future, not yet scheduled
\* due:       the wall clock has reached the target timestamp
\* invalid:   set_result was applied to a done future (InvalidStateError)
\* cleaned:   the future's done-callback has run
\* cancelReq: the caller called cancel(): "none", "early" (before the native
\*            timer fired), "late"
\* dup:       a second native completion was delivered for this wait
WtInit ==
    [st |-> "idle", failure |-> "none", fut |-> "none", cbs |-> <<>>, due |-> FALSE,
     invalid |-> FALSE, cleaned |-> FALSE, cancelReq |-> "none", dup |-> FALSE]

done(f) == f \in {"result", "cancelled"}

\* Future.__schedule_callbacks: each registered done-callback is posted with
\* call_soon, in registration order.
schedule_callbacks(q, w, cs) ==
    q \o [i \in 1 .. Len(cs) |-> [w |-> w, fn |-> cs[i]]]

FBundle == [wt |-> wt, ready |-> ready]

FSet(F) ==
    /\ wt' = F.wt
    /\ ready' = F.ready

\* Future.set_result on the bundle F = [wt, ready].
set_result(F, w) ==
    IF done(F.wt[w].fut)
    THEN [F EXCEPT !.wt[w].invalid = TRUE]
    ELSE [wt |-> [F.wt EXCEPT ![w].fut = "result", ![w].cbs = <<>>],
          ready |-> schedule_callbacks(F.ready, w, F.wt[w].cbs)]

\* Future.cancel.
cancel(F, w) ==
    IF done(F.wt[w].fut)
    THEN F
    ELSE [wt |-> [F.wt EXCEPT ![w].fut = "cancelled", ![w].cbs = <<>>],
          ready |-> schedule_callbacks(F.ready, w, F.wt[w].cbs)]

\* The call raised at setup step f: no future reaches the caller.
raised(W, w, f) ==
    [W EXCEPT ![w].st = "raised", ![w].failure = f]

\* The call returned a pending future carrying the cleanup done-callback; t
\* tells whether the target timestamp is already in the past at the call.
returned(W, w, t) ==
    [W EXCEPT ![w].st = "returned", ![w].fut = "pending", ![w].due = t,
              ![w].cbs = <<"cleanup">>]

Alive == ~crashed

LoopIdle == loopPc.pc = "idle" /\ Alive

\* The loop is about to run callback fn of some slot; that slot.
HeadIs(fn) == ready # <<>> /\ Head(ready).fn = fn

HasCallback(w) == \E i \in 1 .. Len(ready) : ready[i].w = w

\* Slot w is free and no lower free slot is in the same state: which of two
\* indistinguishable free addresses the allocator hands out is immaterial.
FreeSlot(w) ==
    /\ wt[w].st = "idle"
    /\ \A v \in Waits : v < w /\ wt[v].st = "idle" => nt[v] # nt[w]

CanCall(w) ==
    /\ LoopIdle
    /\ FreeSlot(w)
    /\ calls < MaxCalls

----------------------------------------------------------------------------
(* The package: the backend bound to the public wait_until at import.      *)

linux == <<"l", "i", "n", "u", "x">>
win32 == <<"w", "i", "n", "3", "2">>
cygwin == <<"c", "y", "g", "w", "i", "n">>

\* Values of sys.platform.
Platforms ==
    {linux, linux \o <<"2">>, win32, cygwin,
     <<"d", "a", "r", "w", "i", "n">>, <<"f", "r", "e", "e", "b", "s", "d">>}

\* str.startswith with one prefix.
startswith(s, prefix) ==
    /\ Len(prefix) <= Len(s)
    /\ SubSeq(s, 1, Len(prefix)) = prefix

\* A selector that compares sys.platform for equality.
impl_exact(p) ==
    IF p = linux THEN "linux"
    ELSE IF p \in {win32, cygwin} THEN "windows"
    ELSE "none"

\* The module bound to _impl at import ("none" for None).
impl(p) ==
    IF startswith(p, linux) THEN "linux"
    ELSE IF startswith(p, win32) \/ startswith(p, cygwin) THEN "windows"
    ELSE "none"

\* The modules whose wait_until a program on platform p calls: the one the
\* package selected, or one of the two the package never selects, called
\* directly on the platform that has its native library.
Callable(p) ==
    {impl(p)}
        \cup (IF p = linux THEN {"timer_create"} ELSE {})
        \cup (IF impl(p) = "none" /\ startswith(p, <<"d", "a", "r", "w", "i", "n">>)
              THEN {"darwin"} ELSE {})

\* sleep_absolute.wait_until with _impl None: NotImplementedError.
PublicUnsupported(w) ==
    /\ backend = "none"
    /\ CanCall(w)
    /\ calls' = calls + 1
    /\ wt' = raised(wt, w, "unsupported")
    /\ UNCHANGED <<inputVars, legacyVars, backend, crashed, loopVars, lxVars, tcVars, wn, dw>>

----------------------------------------------------------------------------
(* _linux: a timerfd registered with add_reader.                           *)

\* fd: descriptor number (0: none); open: this wait's descriptor is open;
\* closed: the closure's flag; closes: os.close calls made for this wait;
\* registered: _close_fd closed the descriptor while its reader was still
\* registered.
LxInit ==
    [fd |-> 0, open |-> FALSE, closed |-> FALSE, closes |-> 0, registered |-> FALSE]

\* timerfd_create returns the lowest descriptor number not in use.
create_timerfd(open) ==
    IF Fds \ open = {} THEN 0
    ELSE CHOOSE fd \in Fds \ open : \A g \in Fds \ open : fd <= g

LxBundle == [lx |-> lx, fdOpen |-> fdOpen, readers |-> readers]

LxSet(S) ==
    /\ lx' = S.lx
    /\ fdOpen' = S.fdOpen
    /\ readers' = S.readers

\* _close_fd: closed = True.
set_closed(S, w) == [S EXCEPT !.lx[w].closed = TRUE]

\* _close_fd: remove_reader(fd).
remove_reader(S, w) == [S EXCEPT !.readers[S.lx[w].fd] = 0]

\* _close_fd, the finally branch: _os.close(fd).
os_close(S, w) ==
    [S EXCEPT !.lx[w].open = FALSE,
              !.lx[w].closes = @ + 1,
              !.lx[w].registered = @ \/ S.readers[S.lx[w].fd] # 0,
              !.fdOpen = @ \ {S.lx[w].fd}]

\* A _close_fd body that closes the descriptor and leaves its reader.
close_only(S, w) == os_close(set_closed(S, w), w)

\* The body of _close_fd past its guard, in the order of the source: set the
\* flag, remove_reader(fd), os.close(fd).
remove_and_close(S, w) ==
    os_close(remove_reader(set_closed(S, w), w), w)

\* _close_fd without its closed flag.
close_fd_unguarded(S, w) == remove_and_close(S, w)

\* wait_until._close_fd on the bundle S = [lx, fdOpen, readers].
close_fd(S, w) ==
    IF S.lx[w].closed THEN S ELSE remove_and_close(S, w)

\* timerfd_create succeeded with descriptor fd.
created_fd(S, w, fd) ==
    [S EXCEPT !.lx[w] = [LxInit EXCEPT !.fd = fd, !.open = TRUE],
              !.fdOpen = @ \cup {fd}]

\* An except branch that re-raises without closing.
program_failed_leaks(S, w) == S

\* _program_timerfd raised: the except branch closes the descriptor.
program_failed(S, w) ==
    [S EXCEPT !.lx[w].open = FALSE, !.lx[w].closes = @ + 1,
              !.fdOpen = @ \ {S.lx[w].fd}]

\* add_reader(fd, _on_ready).
add_reader(S, w) == [S EXCEPT !.readers[S.lx[w].fd] = w]

\* The selector reports the timerfd of slot w readable and its reader is
\* registered: the timer is armed one-shot at an absolute CLOCK_REALTIME
\* deadline and nobody reads the descriptor.
LxReadable(w) ==
    /\ lx[w].open
    /\ readers[lx[w].fd] = w
    /\ wt[w].due

\* A capability check made after the native timer was created.
precheck_late(before, created) == created

\* The capability check of wait_until (add_reader/remove_reader in _linux,
\* _proactor in _windows) raises RuntimeError on the lines before the native
\* timer is created: of the state before and the state with the timer
\* created, the call leaves the first.
precheck_failed(before, created) == before

LinuxOutcomes == {"no_reader", "create", "arm", "register", "ok"}

LinuxWaitUntil(w, t, o) ==
    /\ backend = "linux"
    /\ CanCall(w)
    /\ calls' = calls + 1
    /\ LET fd == create_timerfd(fdOpen)
           S0 == created_fd(LxBundle, w, fd)
       IN  CASE o = "no_reader" ->
                  /\ wt' = raised(wt, w, "precheck")
                  /\ LxSet(precheck_failed(LxBundle, S0))
             [] o = "create" \/ (o # "no_reader" /\ fd = 0) ->
                  /\ wt' = raised(wt, w, "create")
                  /\ UNCHANGED lxVars
             [] o = "arm" /\ fd # 0 ->
                  /\ wt' = raised(wt, w, "arm")
                  /\ LxSet(program_failed(S0, w))
             [] o = "register" /\ fd # 0 ->
                  /\ wt' = raised(wt, w, "register")
                  /\ LxSet(close_fd(S0, w))
             [] o = "ok" /\ fd # 0 ->
                  /\ wt' = returned(wt, w, t)
                  /\ LxSet(add_reader(S0, w))
    /\ UNCHANGED <<inputVars, legacyVars, backend, crashed, loopVars, tcVars, wn, dw>>

\* _on_ready without its guard.
on_ready_unguarded(f) == TRUE

\* The guard of wait_until._on_ready: if not future.done().
on_ready_sets(f) == ~done(f)

\* wait_until._on_ready on the future: set_result behind the guard.
on_ready_future(F, w) ==
    IF on_ready_sets(F.wt[w].fut) THEN set_result(F, w) ELSE F

\* wait_until._on_ready on the descriptor, f being the future's state at its
\* start: an InvalidStateError from set_result leaves it before _close_fd.
on_ready_fd(S, f, w) ==
    IF on_ready_sets(f) /\ done(f) THEN S ELSE close_fd(S, w)

\* wait_until._on_ready, run by the loop for a readable, registered descriptor.
LinuxOnReady(w) ==
    /\ backend = "linux"
    /\ LoopIdle
    /\ LxReadable(w)
    /\ FSet(on_ready_future(FBundle, w))
    /\ LxSet(on_ready_fd(LxBundle, wt[w].fut, w))
    /\ UNCHANGED <<procVars, loopPc, tcVars, wn, dw>>

\* _on_ready is called once more for a wait whose future is done.
LinuxDuplicate(w) ==
    /\ backend = "linux"
    /\ LoopIdle
    /\ wt[w].st = "returned"
    /\ done(wt[w].fut)
    /\ calls < MaxCalls
    /\ calls' = calls + 1
    /\ LET F == on_ready_future(FBundle, w)
       IN  /\ ready' = F.ready
           /\ wt' = [F.wt EXCEPT ![w].dup = TRUE]
    /\ LxSet(on_ready_fd(LxBundle, wt[w].fut, w))
    /\ UNCHANGED <<inputVars, legacyVars, backend, crashed, loopPc, tcVars, wn, dw>>

\* wait_until._cleanup_callback, the future's done-callback.
LinuxCleanupCallback ==
    /\ backend = "linux"
    /\ LoopIdle
    /\ HeadIs("cleanup")
    /\ LET w == Head(ready).w
       IN  /\ ready' = Tail(ready)
           /\ wt' = [wt EXCEPT ![w].cleaned = TRUE]
           /\ LxSet(close_fd(LxBundle, w))
    /\ UNCHANGED <<procVars, loopPc, tcVars, wn, dw>>

----------------------------------------------------------------------------
(* _timer_create: a POSIX timer with SIGEV_THREAD notification.  The key   *)
(* of a context is id(self): the slot.                                     *)

\* closed: _closed; timer_id: "null" or "set"; ktimer: the kernel timer,
\* "none", "disarmed", "armed", "expired" or "deleted"; fired: this wait's own
\* timer has expired; deletes, pops: timer_delete calls and registry removals
\* made for this context; unflagged: timer_delete or the registry removal ran
\* while _closed was still unset.
TcInit ==
    [closed |-> FALSE, timer_id |-> "null", ktimer |-> "none", fired |-> FALSE,
     deletes |-> 0, pops |-> 0, unflagged |-> FALSE]

\* Notification threads running _timer_callback with this key: start (before
\* _contexts.get), got (holding the context, before the _closed check),
\* checked (past the check, before call_soon_threadsafe).
NtInit == [start |-> 0, got |-> 0, checked |-> 0]

TcBundle == [tc |-> tc, contexts |-> contexts]

TcSet(T) ==
    /\ tc' = T.tc
    /\ contexts' = T.contexts

\* cleanup: self._closed = True.
mark_closed(T, w) == [T EXCEPT !.tc[w].closed = TRUE]

\* cleanup: _timer_delete(self.timer_id) if the timer id is set.
timer_delete(T, w) ==
    IF T.tc[w].timer_id = "set"
    THEN [T EXCEPT !.tc[w].deletes = @ + 1,
                   !.tc[w].ktimer = "deleted",
                   !.tc[w].unflagged = @ \/ ~T.tc[w].closed]
    ELSE T

\* cleanup, the finally branch: _contexts.pop(self.key, None) and the reset
\* of timer_id.
pop_and_reset(T, w) ==
    [tc |-> [T.tc EXCEPT
               ![w].pops = IF w \in T.contexts THEN @ + 1 ELSE @,
               ![w].unflagged = @ \/ (w \in T.contexts /\ ~T.tc[w].closed),
               ![w].timer_id = "null"],
     contexts |-> T.contexts \ {w}]

\* A cleanup body that sets _closed last.
close_last(T, w) ==
    mark_closed(pop_and_reset(timer_delete(T, w), w), w)

\* The body of cleanup past its guard, in the order of the source: set
\* _closed, timer_delete, pop the registry entry and reset timer_id.  The
\* three run in one step of the scheduler thread: a notification thread that
\* moves between them meets _closed set and an entry that is still there,
\* which is what a thread meets that looked the key up before the step and
\* checks _closed after it.
delete_and_pop(T, w) ==
    pop_and_reset(timer_delete(mark_closed(T, w), w), w)

\* cleanup without its _closed gate and without the reset of timer_id.
cleanup_ungated(T, w) ==
    [tc |-> [T.tc EXCEPT
               ![w].closed = TRUE,
               ![w].deletes = IF T.tc[w].timer_id = "set" THEN @ + 1 ELSE @,
               ![w].ktimer = IF T.tc[w].timer_id = "set" THEN "deleted" ELSE @,
               ![w].pops = IF w \in T.contexts THEN @ + 1 ELSE @],
     contexts |-> T.contexts \ {w}]

\* A cleanup that only sets the flag.
cleanup_flag_only(T, w) == [T EXCEPT !.tc[w].closed = TRUE]

\* _TimerContext.cleanup on the bundle T = [tc, contexts].
cleanup(T, w) ==
    IF T.tc[w].closed THEN T ELSE delete_and_pop(T, w)

\* _TimerContext.__init__: a fresh context, registered under its key.
new_context(T, w) ==
    [tc |-> [T.tc EXCEPT ![w] = TcInit],
     contexts |-> T.contexts \cup {w}]

\* timer_create succeeded: start stores the timer id.
created_timer(T, w) ==
    [T EXCEPT !.tc[w].timer_id = "set", !.tc[w].ktimer = "disarmed"]

\* timer_settime succeeded.
armed_timer(T, w) == [T EXCEPT !.tc[w].ktimer = "armed"]

TcOutcomes == {"create", "arm", "ok"}

\* wait_until: the except branch calls cleanup again after start's own.
TcWaitUntil(w, t, o) ==
    /\ backend = "timer_create"
    /\ CanCall(w)
    /\ calls' = calls + 1
    /\ LET T0 == new_context(TcBundle, w)
           T1 == created_timer(T0, w)
       IN  CASE o = "create" ->
                  /\ wt' = raised(wt, w, "create")
                  /\ TcSet(cleanup(T0, w))
             [] o = "arm" ->
                  /\ wt' = raised(wt, w, "arm")
                  /\ TcSet(cleanup(cleanup(T1, w), w))
             [] o = "ok" ->
                  /\ wt' = returned(wt, w, t)
                  /\ TcSet(armed_timer(T1, w))
    /\ UNCHANGED <<inputVars, legacyVars, backend, crashed, loopVars, nt, lxVars, wn, dw>>

\* The kernel timer of slot w expires (one-shot, absolute CLOCK_REALTIME) and
\* a notification thread is started with the key as sigval.
TcExpire(w) ==
    /\ backend = "timer_create"
    /\ Alive
    /\ tc[w].ktimer = "armed"
    /\ wt[w].due
    /\ tc' = [tc EXCEPT ![w].ktimer = "expired", ![w].fired = TRUE]
    /\ nt' = [nt EXCEPT ![w].start = @ + 1]
    /\ UNCHANGED <<procVars, loopVars, wt, contexts, lxVars, wn, dw>>

\* A second completion for a timer that has already expired.
TcDuplicate(w) ==
    /\ backend = "timer_create"
    /\ Alive
    /\ tc[w].fired
    /\ calls < MaxCalls
    /\ calls' = calls + 1
    /\ nt' = [nt EXCEPT ![w].start = @ + 1]
    /\ wt' = [wt EXCEPT ![w].dup = TRUE]
    /\ UNCHANGED <<inputVars, legacyVars, backend, crashed, loopVars, tc, contexts, lxVars, wn, dw>>

\* A lookup that hands out whatever lies at the key's address.
get_unchecked(C, k) == TRUE

\* _contexts.get(key) is not None.
get_finds(C, k) == k \in C

\* _timer_callback: context = _contexts.get(key); a missing key ends it.
TcLookup(k) ==
    /\ backend = "timer_create"
    /\ Alive
    /\ nt[k].start > 0
    /\ nt' = [nt EXCEPT ![k].start = @ - 1,
                        ![k].got = IF get_finds(contexts, k) THEN @ + 1 ELSE @]
    /\ UNCHANGED <<procVars, loopVars, wt, tc, contexts, lxVars, wn, dw>>

\* _on_timer with its check inverted.
on_timer_inverted(c) == c.closed

\* The guard of _on_timer: it goes on only if not self._closed.
on_timer_posts(c) == ~c.closed

\* _on_timer: the _closed check.
TcOnTimerCheck(k) ==
    /\ backend = "timer_create"
    /\ Alive
    /\ nt[k].got > 0
    /\ nt' = [nt EXCEPT ![k].got = @ - 1,
                        ![k].checked = IF on_timer_posts(tc[k]) THEN @ + 1 ELSE @]
    /\ UNCHANGED <<procVars, loopVars, wt, tc, contexts, lxVars, wn, dw>>

\* An _on_timer that sets the result itself, on the notification thread.
on_timer_sets_result(F, k) ==
    IF done(F.wt[k].fut) THEN F ELSE set_result(F, k)

\* loop.call_soon_threadsafe(self._resolve) on the bundle F = [wt, ready].
call_soon_resolve(F, k) ==
    [F EXCEPT !.ready = Append(@, [w |-> k, fn |-> "resolve"])]

\* _on_timer past its check, on the notification thread.
TcOnTimerPost(k) ==
    /\ backend = "timer_create"
    /\ Alive
    /\ nt[k].checked > 0
    /\ nt' = [nt EXCEPT ![k].checked = @ - 1]
    /\ FSet(call_soon_resolve(FBundle, k))
    /\ UNCHANGED <<procVars, loopPc, tc, contexts, lxVars, wn, dw>>

\* The first guard of _resolve: it goes on only if not self._closed.
resolve_goes_on(c) == ~c.closed

\* The second guard of _resolve: if not self.future.done().
resolve_sets(f) == ~done(f)

\* _TimerContext._resolve, run by the loop.  An InvalidStateError from
\* set_result leaves it before cleanup.
TcResolve ==
    /\ backend = "timer_create"
    /\ LoopIdle
    /\ HeadIs("resolve")
    /\ LET w == Head(ready).w
           F0 == [FBundle EXCEPT !.ready = Tail(ready)]
           sets == resolve_sets(wt[w].fut)
       IN  IF resolve_goes_on(tc[w])
           THEN /\ FSet(IF sets THEN set_result(F0, w) ELSE F0)
                /\ TcSet(IF sets /\ done(wt[w].fut) THEN TcBundle
                         ELSE cleanup(TcBundle, w))
           ELSE /\ FSet(F0)
                /\ UNCHANGED <<tc, contexts>>
    /\ UNCHANGED <<procVars, loopPc, nt, lxVars, wn, dw>>

\* wait_until._on_done, the future's done-callback.
TcOnDone ==
    /\ backend = "timer_create"
    /\ LoopIdle
    /\ HeadIs("cleanup")
    /\ LET w == Head(ready).w
       IN  /\ ready' = Tail(ready)
           /\ wt' = [wt EXCEPT ![w].cleaned = TRUE]
           /\ TcSet(cleanup(TcBundle, w))
    /\ UNCHANGED <<procVars, loopPc, nt, lxVars, wn, dw>>

----------------------------------------------------------------------------
(* _windows: a waitable timer handed to the proactor's wait_for_handle.    *)

\* handle: "none", "open" or "closed"; registered: the proactor waits on the
\* handle; closes: CloseHandle calls made for this wait.
WnInit == [handle |-> "none", registered |-> FALSE, closes |-> 0]

\* CreateWaitableTimerW succeeded.
created_handle(H, w) == [H EXCEPT ![w] = [WnInit EXCEPT !.handle = "open"]]

\* _CloseHandle(handle).
CloseHandle(H, w) == [H EXCEPT ![w].handle = "closed", ![w].closes = @ + 1]

\* SetWaitableTimer failed: the branch closes the handle before raising.
set_failed(H, w) == CloseHandle(H, w)

\* proactor.wait_for_handle(handle, None) succeeded.
wait_for_handle(H, w) == [H EXCEPT ![w].registered = TRUE]

\* The proactor stops waiting on the handle (the wait completed or its
\* future was cancelled).
unregister_wait(H, w) == [H EXCEPT ![w].registered = FALSE]

WinOutcomes == {"no_proactor", "create", "arm", "register", "ok"}

\* wait_until: an exception of wait_for_handle propagates as it is.
WinWaitUntil(w, t, o) ==
    /\ backend = "windows"
    /\ CanCall(w)
    /\ calls' = calls + 1
    /\ LET H0 == created_handle(wn, w)
       IN  CASE o = "no_proactor" ->
                  /\ wt' = raised(wt, w, "precheck")
                  /\ wn' = precheck_failed(wn, H0)
             [] o = "create" ->
                  /\ wt' = raised(wt, w, "create")
                  /\ UNCHANGED wn
             [] o = "arm" ->
                  /\ wt' = raised(wt, w, "arm")
                  /\ wn' = set_failed(H0, w)
             [] o = "register" ->
                  /\ wt' = raised(wt, w, "register")
                  /\ wn' = H0
             [] o = "ok" ->
                  /\ wt' = returned(wt, w, t)
                  /\ wn' = wait_for_handle(H0, w)
    /\ UNCHANGED <<inputVars, legacyVars, backend, crashed, loopVars, lxVars, tcVars, dw>>

\* The handle is signalled (manual-reset timer, absolute due time) and the
\* proactor completes the registered wait on the scheduler thread: the
\* future of wait_for_handle gets its result unless it is done.
WinSignalled(w) ==
    /\ backend = "windows"
    /\ LoopIdle
    /\ wn[w].registered
    /\ wt[w].due
    /\ FSet(IF done(wt[w].fut) THEN FBundle ELSE set_result(FBundle, w))
    /\ wn' = unregister_wait(wn, w)
    /\ UNCHANGED <<procVars, loopPc, lxVars, tcVars, dw>>

\* wait_until._cleanup_callback, the future's done-callback.
WinCleanupCallback ==
    /\ backend = "windows"
    /\ LoopIdle
    /\ HeadIs("cleanup")
    /\ LET w == Head(ready).w
       IN  /\ ready' = Tail(ready)
           /\ wt' = [wt EXCEPT ![w].cleaned = TRUE]
           /\ wn' = CloseHandle(wn, w)
    /\ UNCHANGED <<procVars, loopPc, lxVars, tcVars, dw>>

----------------------------------------------------------------------------
(* _darwin: a dispatch timer source on a global queue.  Its event handler  *)
(* and cancel handler run on a worker thread, one at a time per source,    *)
(* interleaved with the scheduler thread.                                  *)

\* timer: self.timer and the source behind it: "none" (no source), "live",
\*        "None" (released);
\* ptr: the context pointer (_py_obj_ref/_py_obj_ptr) is held;
\* cancelled: _cancelled; cancels: dispatch_source_cancel calls on the live
\* source; releases: dispatch_release calls; evDone: the one-shot event was
\* delivered; chDone: the cancel handler has started;
\* pc: position of the worker thread in this source's handlers;
\* dangling: the live source's context pointer is the address of a freed
\* py_object; cancelNone: dispatch_source_cancel was called with self.timer
\* already None.
DwInit ==
    [timer |-> "none", ptr |-> FALSE, cancelled |-> FALSE, cancels |-> 0,
     releases |-> 0, evDone |-> FALSE, chDone |-> FALSE, pc |-> "idle",
     dangling |-> FALSE, cancelNone |-> FALSE]

\* dispatch_source_create succeeded; context, handlers, timer and resume.
created_source(D, w) ==
    [D EXCEPT ![w] = [DwInit EXCEPT !.timer = "live", !.ptr = TRUE]]

\* The two guards of cancel_timer: it goes on only with a timer that is not
\* None and with _cancelled unset.
cancel_timer_goes_on(d) == d.timer # "None" /\ ~d.cancelled

\* cancel_timer: self._cancelled = True.
cancel_timer_marks(d) == [d EXCEPT !.cancelled = TRUE]

\* cancel_timer: _dispatch_source_cancel(self.timer) on a live source.
source_cancel(d) == [d EXCEPT !.cancels = @ + 1]

\* _TimerContext.release: _dispatch_release(self.timer) and self.timer = None
\* if the timer is not None; then the context pointer is dropped.
release(d) ==
    IF d.timer # "None"
    THEN [d EXCEPT !.timer = "None", !.releases = @ + 1, !.ptr = FALSE]
    ELSE [d EXCEPT !.ptr = FALSE]

DarwinOutcomes == {"queue", "create", "ok"}

DarwinWaitUntil(w, t, o) ==
    /\ backend = "darwin"
    /\ CanCall(w)
    /\ calls' = calls + 1
    /\ CASE o = "queue" ->
              /\ wt' = raised(wt, w, "queue")
              /\ UNCHANGED dw
         [] o = "create" ->
              /\ wt' = raised(wt, w, "create")
              /\ UNCHANGED dw
         [] o = "ok" ->
              /\ wt' = returned(wt, w, t)
              /\ dw' = created_source(dw, w)
    /\ UNCHANGED <<inputVars, legacyVars, backend, crashed, loopVars, lxVars, tcVars, wn>>

\* The source fires: the worker thread enters _event_handler.  A one-shot
\* source (interval DISPATCH_TIME_FOREVER) that was not cancelled fires once
\* its wall-clock start time is reached.
DarwinEvent(w) ==
    /\ backend = "darwin"
    /\ Alive
    /\ dw[w].timer = "live"
    /\ dw[w].pc = "idle"
    /\ ~dw[w].evDone
    /\ dw[w].cancels = 0
    /\ wt[w].due
    /\ dw' = [dw EXCEPT ![w].evDone = TRUE, ![w].pc = "ev"]
    /\ UNCHANGED <<procVars, loopVars, wt, lxVars, tcVars, wn>>

\* as_context_ptr stores py_object(self) in the context, and the source gets
\* the address of that py_object: the context is referred to by the closure
\* _cleanup (held by the pending future, then by the posted callback), by the
\* frame of a running handler or cancel_timer, and by its own py_object.
\* With only the last one left the context is cyclic garbage.
only_cycle_refers(w) ==
    /\ dw[w].ptr
    /\ wt[w].cbs = <<>>
    /\ \A i \in 1 .. Len(ready) : ~(ready[i].w = w /\ ready[i].fn = "cleanup")
    /\ loopPc.w # w
    /\ dw[w].pc = "idle"

\* The cyclic garbage collector frees the context and its py_object while the
\* source, which holds the py_object's address, is live.
DarwinCollect(w) ==
    /\ backend = "darwin"
    /\ Alive
    /\ dw[w].timer = "live"
    /\ ~dw[w].dangling
    /\ only_cycle_refers(w)
    /\ dw' = [dw EXCEPT ![w].dangling = TRUE]
    /\ UNCHANGED <<procVars, loopVars, wt, lxVars, tcVars, wn>>

\* _context_from_ptr on the worker thread: the context.  Reading through the
\* address of a freed py_object is undefined: the memory still holds the
\* context and the handler goes on ("context"), the process faults ("fault"),
\* or the read or the handler's first attribute access raises inside the
\* ctypes callback, which drops the exception, and the handler has done
\* nothing ("raise").
context_from_ptr(d) ==
    IF d.dangling THEN {"context", "fault", "raise"} ELSE {"context"}

\* The worker thread enters _event_handler once more for a source that has
\* fired and is not yet released.
DarwinDuplicate(w) ==
    /\ backend = "darwin"
    /\ Alive
    /\ dw[w].timer = "live"
    /\ dw[w].pc = "idle"
    /\ dw[w].evDone
    /\ ~dw[w].chDone
    /\ calls < MaxCalls
    /\ calls' = calls + 1
    /\ wt' = [wt EXCEPT ![w].dup = TRUE]
    /\ \E c \in context_from_ptr(dw[w]) :
         /\ crashed' = (c = "fault")
         /\ dw' = IF c = "context" THEN [dw EXCEPT ![w].pc = "ev"] ELSE dw
    /\ UNCHANGED <<inputVars, legacyVars, backend, loopVars, lxVars, tcVars, wn>>

\* An _event_handler that goes to cancel_timer without posting.
event_posts_nothing(f) == FALSE

\* The guard of _event_handler: _set_result is posted unless future.done().
event_posts(f) == ~done(f)

\* _event_handler: with the future done it goes straight to cancel_timer,
\* otherwise it first posts _set_result with call_soon_threadsafe.
DarwinEvPost(w) ==
    /\ backend = "darwin"
    /\ Alive
    /\ dw[w].pc = "ev"
    /\ ready' = IF event_posts(wt[w].fut)
                THEN Append(ready, [w |-> w, fn |-> "set_result"])
                ELSE ready
    /\ dw' = [dw EXCEPT ![w].pc = "ct_check"]
    /\ UNCHANGED <<procVars, loopPc, wt, lxVars, tcVars, wn>>

\* cancel_timer on the worker thread: the guards.
DarwinEvCheck(w) ==
    /\ backend = "darwin"
    /\ Alive
    /\ dw[w].pc = "ct_check"
    /\ dw' = [dw EXCEPT ![w].pc = IF cancel_timer_goes_on(dw[w]) THEN "ct_write"
                                  ELSE "idle"]
    /\ UNCHANGED <<procVars, loopVars, wt, lxVars, tcVars, wn>>

\* cancel_timer on the worker thread: the write of _cancelled and
\* dispatch_source_cancel.  The source is live here: its cancel handler
\* cannot run during its event handler.
DarwinEvCancel(w) ==
    /\ backend = "darwin"
    /\ Alive
    /\ dw[w].pc = "ct_write"
    /\ dw' = [dw EXCEPT ![w] = [source_cancel(cancel_timer_marks(@)) EXCEPT !.pc = "idle"]]
    /\ UNCHANGED <<procVars, loopVars, wt, lxVars, tcVars, wn>>

\* The source was cancelled and no handler of it is running: the worker
\* thread runs _cancel_handler, which calls release.
DarwinCancelHandler(w) ==
    /\ backend = "darwin"
    /\ Alive
    /\ dw[w].cancels > 0
    /\ ~dw[w].chDone
    /\ dw[w].pc = "idle"
    /\ \E c \in context_from_ptr(dw[w]) :
         /\ crashed' = (c = "fault")
         /\ dw' = [dw EXCEPT ![w] = IF c = "context"
                                    THEN [release(@) EXCEPT !.chDone = TRUE,
                                                            !.dangling = FALSE]
                                    ELSE [@ EXCEPT !.chDone = TRUE]]
    /\ UNCHANGED <<inputVars, legacyVars, backend, calls, loopVars, wt, lxVars, tcVars, wn>>

\* _set_result without its guard.
set_result_unguarded(f) == TRUE

\* The guard of _event_handler._set_result: if not future.done().
set_result_sets(f) == ~done(f)

\* _event_handler._set_result, run by the loop.
DarwinSetResult ==
    /\ backend = "darwin"
    /\ LoopIdle
    /\ HeadIs("set_result")
    /\ LET w == Head(ready).w
           F0 == [FBundle EXCEPT !.ready = Tail(ready)]
       IN  FSet(IF set_result_sets(wt[w].fut) THEN set_result(F0, w) ELSE F0)
    /\ UNCHANGED <<procVars, loopPc, lxVars, tcVars, wn, dw>>

\* wait_until._cleanup, the future's done-callback: cancel_timer on the
\* scheduler thread, its guards first.
DarwinCleanup ==
    /\ backend = "darwin"
    /\ LoopIdle
    /\ HeadIs("cleanup")
    /\ LET w == Head(ready).w
       IN  /\ ready' = Tail(ready)
           /\ IF cancel_timer_goes_on(dw[w])
              THEN /\ loopPc' = [w |-> w, pc |-> "ct_write"]
                   /\ UNCHANGED wt
              ELSE /\ wt' = [wt EXCEPT ![w].cleaned = TRUE]
                   /\ UNCHANGED loopPc
    /\ UNCHANGED <<procVars, lxVars, tcVars, wn, dw>>

\* cancel_timer on the scheduler thread: the write of _cancelled and
\* dispatch_source_cancel(self.timer).  With self.timer already None the call
\* gets a null pointer and faults.
DarwinLoopCancel ==
    /\ backend = "darwin"
    /\ Alive
    /\ loopPc.pc = "ct_write"
    /\ LET w == loopPc.w
       IN  \/ /\ dw[w].timer = "live"
              /\ dw' = [dw EXCEPT ![w] = source_cancel(cancel_timer_marks(@))]
              /\ UNCHANGED crashed
           \/ /\ dw[w].timer = "None"
              /\ dw' = [dw EXCEPT ![w] = [cancel_timer_marks(@) EXCEPT !.cancelNone = TRUE]]
              /\ crashed' = TRUE
    /\ loopPc' = [w |-> 0, pc |-> "idle"]
    /\ wt' = [wt EXCEPT ![loopPc.w].cleaned = TRUE]
    /\ UNCHANGED <<inputVars, legacyVars, backend, calls, ready, lxVars, tcVars, wn>>

----------------------------------------------------------------------------
(* Deadline conversion.  A timestamp is a fixed-point number                *)
(* (-1)^neg * (sec + num / Den), the fraction in half nanoseconds; an       *)
(* integer too wide for the checker is kept as a sum of terms.             *)

NANO == 1000000000
TICK == 10000000
Den == 2 * NANO

\* Numerators of the fractions tried: zero, ties and near-ties of the
\* nanosecond and of the 100 ns tick at both ends of a second, and a half.
Nums ==
    {0, 1, 3, 100, 300, NANO, Den - 100, Den - 2, Den - 1}

Timestamps == [neg : BOOLEAN, sec : 0 .. MaxSec, num : Nums]

Epoch == [neg |-> FALSE, sec |-> 0, num |-> 0]

\* math.modf: the fractional and the integral part, each with the sign of
\* the argument.
modf(t) ==
    [fractional |-> [neg |-> t.neg, num |-> t.num],
     integral |-> IF t.neg THEN 0 - t.sec ELSE t.sec]

\* round() of n / d for n >= 0: to the nearest integer, a tie to the even one.
round_half_even(n, d) ==
    LET q == n \div d
        r == n % d
    IN  IF 2 * r < d THEN q
        ELSE IF 2 * r > d THEN q + 1
        ELSE IF q % 2 = 0 THEN q ELSE q + 1

\* int(round(fractional * per_second)); round is symmetric about zero.
round_scaled(fractional, per_second) ==
    LET m == round_half_even(fractional.num, Den \div per_second)
    IN  IF fractional.neg THEN 0 - m ELSE m

\* The (seconds, nanoseconds) computed by _linux._program_timerfd.
program_timerfd_spec(t) ==
    LET nanoseconds == round_scaled(modf(t).fractional, NANO)
        seconds == modf(t).integral
    IN  IF nanoseconds >= NANO
        THEN [sec |-> seconds + 1, nsec |-> nanoseconds - NANO]
        ELSE [sec |-> seconds, nsec |-> nanoseconds]

\* _timer_create._timestamp_to_spec: it_value.
timestamp_to_spec(t) ==
    LET nanoseconds == round_scaled(modf(t).fractional, NANO)
        seconds == modf(t).integral
    IN  IF nanoseconds >= NANO
        THEN [sec |-> seconds + 1, nsec |-> nanoseconds - NANO]
        ELSE [sec |-> seconds, nsec |-> nanoseconds]

\* The (seconds, nanoseconds) computed by _darwin._program_timer.
program_timer_spec(t) ==
    LET nanoseconds == round_scaled(modf(t).fractional, NANO)
        seconds == modf(t).integral
    IN  IF nanoseconds >= NANO
        THEN [sec |-> seconds + 1, nsec |-> nanoseconds - NANO]
        ELSE [sec |-> seconds, nsec |-> nanoseconds]

\* int() of a fixed-point number: truncation towards zero.
int(x) ==
    IF x.neg THEN 0 - (x.num \div Den) ELSE x.num \div Den

\* _windows._unix_to_windows_ticks.  The result is the integer
\* epochs * _EPOCH_DIFFERENCE_SECONDS * _WINDOWS_TICK + ticks.  The names are
\* the source's: math.modf returns the fractional part first, so whole is
\* bound to the fractional part and frac to the integral part, and
\* round(frac * _WINDOWS_TICK) of an integral frac is exact.
unix_to_windows_ticks(t) ==
    LET whole == modf(t).fractional
        frac == modf(t).integral
        fractional_ticks == frac * TICK
        whole_ticks == int(whole) * TICK
    IN  IF fractional_ticks >= TICK
        THEN [epochs |-> 1, ticks |-> (whole_ticks + TICK) + (fractional_ticks - TICK)]
        ELSE [epochs |-> 1, ticks |-> whole_ticks + fractional_ticks]

ProgramTimerfdSpec ==
    /\ backend = "linux"
    /\ conv = <<>>
    /\ conv' = <<program_timerfd_spec(ts)>>
    /\ UNCHANGED <<platform, naive, ts, legacyVars, backend, calls, crashed, loopVars,
                   wt, lxVars, tcVars, wn, dw>>

TimestampToSpec ==
    /\ backend = "timer_create"
    /\ conv = <<>>
    /\ conv' = <<timestamp_to_spec(ts)>>
    /\ UNCHANGED <<platform, naive, ts, legacyVars, backend, calls, crashed, loopVars,
                   wt, lxVars, tcVars, wn, dw>>

ProgramTimerSpec ==
    /\ backend = "darwin"
    /\ conv = <<>>
    /\ conv' = <<program_timer_spec(ts)>>
    /\ UNCHANGED <<platform, naive, ts, legacyVars, backend, calls, crashed, loopVars,
                   wt, lxVars, tcVars, wn, dw>>

UnixToWindowsTicks ==
    /\ backend = "windows"
    /\ conv = <<>>
    /\ conv' = <<unix_to_windows_ticks(ts)>>
    /\ UNCHANGED <<platform, naive, ts, legacyVars, backend, calls, crashed, loopVars,
                   wt, lxVars, tcVars, wn, dw>>

----------------------------------------------------------------------------
(* The caller and the clock.                                               *)

\* The native timer of slot w has signalled expiry.
NativeFired(w) ==
    CASE backend = "linux" -> wt[w].due
      [] backend = "timer_create" -> tc[w].fired
      [] backend = "windows" -> wt[w].due
      [] backend = "darwin" -> dw[w].evDone
      [] OTHER -> FALSE

\* The native resource of slot w is open.
ResourceOpen(w) ==
    CASE backend = "linux" -> lx[w].open
      [] backend = "timer_create" -> tc[w].ktimer \in {"disarmed", "armed", "expired"}
      [] backend = "windows" -> wn[w].handle = "open"
      [] backend = "darwin" -> dw[w].timer = "live"
      [] OTHER -> FALSE

\* future.cancel() by the caller; the future of wait_for_handle also stops
\* the proactor's wait.
Cancel(w) ==
    /\ LoopIdle
    /\ wt[w].st = "returned"
    /\ wt[w].cancelReq = "none"
    /\ LET F == cancel(FBundle, w)
       IN  /\ ready' = F.ready
           /\ wt' = [F.wt EXCEPT ![w].cancelReq = IF NativeFired(w) THEN "late" ELSE "early"]
    /\ wn' = IF done(wt[w].fut) THEN wn ELSE unregister_wait(wn, w)
    /\ UNCHANGED <<procVars, loopPc, lxVars, tcVars, dw>>

\* No thread and no posted callback refers to the wait of slot w.
Unreferenced(w) ==
    /\ ~HasCallback(w)
    /\ loopPc.w # w
    /\ nt[w].got = 0 /\ nt[w].checked = 0
    /\ dw[w].pc = "idle"
    /\ ~(dw[w].cancels > 0 /\ ~dw[w].chDone)

\* The wait of slot w is over and its native resource is gone.
Quiescent(w) ==
    /\ wt[w].st = "raised" \/ (wt[w].st = "returned" /\ done(wt[w].fut))
    /\ Unreferenced(w)
    /\ ~ResourceOpen(w)

\* The caller drops the future; the slot's objects are freed and the slot
\* can be taken by a later call.
Drop(w) ==
    /\ Alive
    /\ Quiescent(w)
    /\ wt' = [wt EXCEPT ![w] = WtInit]
    /\ lx' = [lx EXCEPT ![w] = LxInit]
    /\ tc' = [tc EXCEPT ![w] = TcInit]
    /\ wn' = [wn EXCEPT ![w] = WnInit]
    /\ dw' = [dw EXCEPT ![w] = DwInit]
    /\ UNCHANGED <<procVars, loopVars, fdOpen, readers, contexts, nt>>

\* The wall clock reaches the target timestamp of the wait in slot w.
Tick(w) ==
    /\ Alive
    /\ wt[w].st = "returned"
    /\ ~wt[w].due
    /\ wt' = [wt EXCEPT ![w].due = TRUE]
    /\ UNCHANGED <<procVars, loopVars, lxVars, tcVars, wn, dw>>

----------------------------------------------------------------------------
(* The modules beside the package: timerfd.py (class Sleeper, driven by    *)
(* main.py), wait_until_timerfd.py and wait_until_win.py.  Their steps are *)
(* handles of the event loop, run as BaseEventLoop._run_once runs them:    *)
(* an iteration appends the readers of the readable descriptors, then the  *)
(* call_later timers that came due, and runs the handles queued so far.    *)

LegacyModules == {"timerfd", "wait_until_timerfd", "wait_until_win"}

handle(fn) == [w |-> 0, fn |-> fn]

\* remove_reader cancels the reader's handle: the loop skips a cancelled
\* handle when it reaches it.
cancel_handles(q, fn) ==
    [i \in 1 .. Len(q) |-> IF q[i].fn = fn THEN handle("cancelled") ELSE q[i]]

\* The loop is about to run handle fn in the running iteration.
Runs(fn) == ntodo > 0 /\ HeadIs(fn)

\* fd:              self._fd (0: None)
\* event:           self._event is set
\* event_wait_fut:  what self._event_wait_fut refers to: "future" (the Future
\*                  of __init__), "task" or "none"
\* task:            the task of self._event.wait(): "none", "scheduled" (first
\*                  step queued), "waiting" (on the event's waiter), "woken"
\*                  (next step queued), "result" or "cancelled"
\* must_cancel:     the task's next step raises CancelledError into it
\* main:            the task of main(): "idle", "awaiting", "woken",
\*                  "returned", "cancelled" (CancelledError left wait_until)
\*                  or "oserror" (os.close raised EBADF)
\* no_cancel_error: the argument of wait_until
\* open, reader:    the descriptor is open; its reader is registered
\* closes:          os.close calls made on the descriptor
\* due:             the timerfd has expired
\* later:           the call_later timer of main(): "none", "armed", "due", "fired"
SleeperInit ==
    [fd |-> 0, event |-> FALSE, event_wait_fut |-> "future", task |-> "none",
     must_cancel |-> FALSE, main |-> "idle", no_cancel_error |-> FALSE,
     open |-> FALSE, reader |-> FALSE, closes |-> 0, due |-> FALSE, later |-> "none"]

\* Event.set on the bundle B = [s, q] of the Sleeper and the ready queue: a
\* task waiting on the event has its next step posted.
event_set(B) ==
    IF B.s.task = "waiting"
    THEN [s |-> [B.s EXCEPT !.event = TRUE, !.task = "woken"],
          q |-> Append(B.q, handle("event_wait"))]
    ELSE [B EXCEPT !.s.event = TRUE]

\* Task.cancel on self._event_wait_fut: nothing for a finished task.
task_cancel(B) ==
    CASE B.s.task \in {"none", "result", "cancelled"} -> B
      [] B.s.task = "waiting" ->
            [s |-> [B.s EXCEPT !.task = "woken", !.must_cancel = TRUE],
             q |-> Append(B.q, handle("event_wait"))]
      [] OTHER -> [B EXCEPT !.s.must_cancel = TRUE]

\* remove_reader(fd) followed by os.close(fd), as _wait_timerfd and cancel
\* both do.
remove_and_os_close(B) ==
    [s |-> [B.s EXCEPT !.reader = FALSE, !.open = FALSE, !.closes = @ + 1],
     q |-> cancel_handles(B.q, "event_set")]

SleeperSet(B) ==
    /\ sleeper' = B.s
    /\ ready' = B.q

\* main(): call_later(1.0, ...) then sleeper.wait_until(target), which runs
\* _wait_timerfd up to its await.
SleeperWaitUntil(nce) ==
    /\ backend = "timerfd"
    /\ sleeper.main = "idle"
    /\ ntodo = 0
    /\ sleeper' = [sleeper EXCEPT !.main = "awaiting", !.no_cancel_error = nce,
                                  !.later = "armed", !.fd = 1, !.open = TRUE,
                                  !.event = FALSE, !.reader = TRUE,
                                  !.task = "scheduled", !.event_wait_fut = "task"]
    /\ ready' = Append(ready, handle("event_wait"))
    /\ UNCHANGED <<packageVars, standalone, ntodo>>

\* The reader registered by _wait_timerfd: self._event.set.
SleeperReader ==
    /\ Runs("event_set")
    /\ SleeperSet(event_set([s |-> sleeper, q |-> Tail(ready)]))
    /\ ntodo' = ntodo - 1
    /\ UNCHANGED <<packageVars, standalone>>

\* A step of the task of self._event.wait(); when it finishes, the step of
\* main() that awaits it is posted.
SleeperEventWait ==
    /\ Runs("event_wait")
    /\ LET after == IF sleeper.must_cancel THEN "cancelled"
                    ELSE IF sleeper.task = "scheduled" /\ ~sleeper.event THEN "waiting"
                    ELSE "result"
       IN  IF after = "waiting"
           THEN /\ sleeper' = [sleeper EXCEPT !.task = after]
                /\ ready' = Tail(ready)
           ELSE /\ sleeper' = [sleeper EXCEPT !.task = after, !.must_cancel = FALSE,
                                              !.main = "woken"]
                /\ ready' = Append(Tail(ready), handle("wait_timerfd"))
    /\ ntodo' = ntodo - 1
    /\ UNCHANGED <<packageVars, standalone>>

\* _wait_timerfd from its await on, and the rest of wait_until.
SleeperWaitTimerfd ==
    /\ Runs("wait_timerfd")
    /\ LET B == [s |-> sleeper, q |-> Tail(ready)]
       IN  IF sleeper.task = "cancelled"
           THEN IF sleeper.no_cancel_error
                THEN SleeperSet([B EXCEPT !.s.event_wait_fut = "none", !.s.fd = 0,
                                          !.s.main = "returned"])
                ELSE SleeperSet([B EXCEPT !.s.main = "cancelled"])
           ELSE LET C == remove_and_os_close([B EXCEPT !.s.event_wait_fut = "none"])
                IN  IF sleeper.open
                    THEN SleeperSet([C EXCEPT !.s.fd = 0, !.s.main = "returned"])
                    ELSE SleeperSet([C EXCEPT !.s.main = "oserror"])
    /\ ntodo' = ntodo - 1
    /\ UNCHANGED <<packageVars, standalone>>

\* The call_later callback of main(): loop.create_task(sleeper.cancel()).
SleeperCreateTask ==
    /\ Runs("create_task")
    /\ ready' = Append(Tail(ready), handle("cancel"))
    /\ ntodo' = ntodo - 1
    /\ UNCHANGED <<packageVars, sleeper, standalone>>

\* Sleeper.cancel, which has no await: one step of its task.
SleeperCancel ==
    /\ backend = "timerfd"
    /\ Runs("cancel")
    /\ LET B == event_set([s |-> sleeper, q |-> Tail(ready)])
           C == IF B.s.fd # 0
                THEN [remove_and_os_close(B) EXCEPT !.s.fd = 0]
                ELSE B
       IN  SleeperSet(IF C.s.event_wait_fut = "task" THEN task_cancel(C) ELSE C)
    /\ ntodo' = ntodo - 1
    /\ UNCHANGED <<packageVars, standalone>>

\* The timerfd reaches its absolute deadline.
SleeperExpire ==
    /\ sleeper.open
    /\ ~sleeper.due
    /\ sleeper' = [sleeper EXCEPT !.due = TRUE]
    /\ UNCHANGED <<packageVars, ready, standalone, ntodo>>

\* The delay of call_later has passed.
SleeperLaterDue ==
    /\ sleeper.later = "armed"
    /\ sleeper' = [sleeper EXCEPT !.later = "due"]
    /\ UNCHANGED <<packageVars, ready, standalone, ntodo>>

\* st:        "idle", "returned" (future handed out) or "raised"
\* open:      the descriptor (the timer handle) is open
\* closes:    os.close (CloseHandle) calls made on it
\* waiting:   the reader (the proactor's wait) is registered
\* fut:       "none", "pending", "result", "cancelled"
\* due:       the native timer has expired
\* cancelReq: the caller has posted a callback that cancels the future
StandaloneInit ==
    [st |-> "idle", open |-> FALSE, closes |-> 0, waiting |-> FALSE, fut |-> "none",
     due |-> FALSE, cancelReq |-> FALSE]

\* wait_until_timerfd.wait_until; o is the first step that fails.
TimerfdWaitUntil(o) ==
    /\ backend = "wait_until_timerfd"
    /\ standalone.st = "idle"
    /\ ntodo = 0
    /\ standalone' =
         CASE o = "create" -> [standalone EXCEPT !.st = "raised"]
           [] o = "arm" -> [standalone EXCEPT !.st = "raised", !.open = TRUE]
           [] OTHER -> [standalone EXCEPT !.st = "returned", !.open = TRUE,
                                          !.waiting = TRUE, !.fut = "pending"]
    /\ UNCHANGED <<packageVars, ready, sleeper, ntodo>>

\* wait_until_timerfd.wait_until.on_ready.
TimerfdOnReady ==
    /\ Runs("on_ready")
    /\ standalone' = [standalone EXCEPT
                        !.fut = IF done(@) THEN @ ELSE "result",
                        !.waiting = FALSE, !.open = FALSE, !.closes = @ + 1]
    /\ ready' = IF done(standalone.fut)
                THEN Tail(ready)
                ELSE Append(Tail(ready), handle("cancel_callback"))
    /\ ntodo' = ntodo - 1
    /\ UNCHANGED <<packageVars, sleeper>>

\* wait_until_timerfd.wait_until.cancel_callback.
TimerfdCancelCallback ==
    /\ backend = "wait_until_timerfd"
    /\ Runs("cancel_callback")
    /\ IF standalone.fut = "cancelled"
       THEN /\ standalone' = [standalone EXCEPT !.waiting = FALSE, !.open = FALSE,
                                                !.closes = @ + 1]
            /\ ready' = cancel_handles(Tail(ready), "on_ready")
       ELSE /\ ready' = Tail(ready)
            /\ UNCHANGED standalone
    /\ ntodo' = ntodo - 1
    /\ UNCHANGED <<packageVars, sleeper>>

\* wait_until_win.wait_until; o is the first step that fails.
WinStandaloneWaitUntil(o) ==
    /\ backend = "wait_until_win"
    /\ standalone.st = "idle"
    /\ ntodo = 0
    /\ standalone' =
         CASE o = "create" -> [standalone EXCEPT !.st = "raised"]
           [] o = "arm" -> [standalone EXCEPT !.st = "raised", !.closes = @ + 1]
           [] OTHER -> [standalone EXCEPT !.st = "returned", !.open = TRUE,
                                          !.waiting = TRUE, !.fut = "pending"]
    /\ UNCHANGED <<packageVars, ready, sleeper, ntodo>>

\* wait_until_win.wait_until.cancel_callback.
WinCancelCallback ==
    /\ backend = "wait_until_win"
    /\ Runs("cancel_callback")
    /\ standalone' = IF standalone.fut = "cancelled"
                     THEN [standalone EXCEPT !.open = FALSE, !.closes = @ + 1]
                     ELSE standalone
    /\ ready' = Tail(ready)
    /\ ntodo' = ntodo - 1
    /\ UNCHANGED <<packageVars, sleeper>>

\* The native timer of the standalone call expires.
StandaloneExpire ==
    /\ standalone.open
    /\ standalone.st = "returned"
    /\ ~standalone.due
    /\ standalone' = [standalone EXCEPT !.due = TRUE]
    /\ UNCHANGED <<packageVars, ready, sleeper, ntodo>>

\* The caller of a standalone wait_until posts a callback that cancels the
\* future (_main does so with call_later(1, fut.cancel)).
StandalonePostCancel ==
    /\ standalone.st = "returned"
    /\ ~standalone.cancelReq
    /\ standalone' = [standalone EXCEPT !.cancelReq = TRUE]
    /\ ready' = Append(ready, handle("cancel"))
    /\ UNCHANGED <<packageVars, sleeper, ntodo>>

\* fut.cancel() run by the loop; the future of wait_for_handle also
\* unregisters its wait.
StandaloneCancel ==
    /\ backend # "timerfd"
    /\ Runs("cancel")
    /\ IF done(standalone.fut)
       THEN /\ ready' = Tail(ready)
            /\ UNCHANGED standalone
       ELSE /\ standalone' = [standalone EXCEPT
                                !.fut = "cancelled",
                                !.waiting = IF backend = "wait_until_win" THEN FALSE ELSE @]
            /\ ready' = Append(Tail(ready), handle("cancel_callback"))
    /\ ntodo' = ntodo - 1
    /\ UNCHANGED <<packageVars, sleeper>>

\* The loop reaches a cancelled handle.
SkipCancelled ==
    /\ Runs("cancelled")
    /\ ready' = Tail(ready)
    /\ ntodo' = ntodo - 1
    /\ UNCHANGED <<packageVars, sleeper, standalone>>

\* The start of a loop iteration: the selector's events, then the due timers,
\* are appended to the ready queue, and the handles then queued are the
\* iteration's.  The proactor sets the result of a signalled wait here.
RunOnce ==
    /\ backend \in LegacyModules
    /\ ntodo = 0
    /\ LET signalled == /\ backend = "wait_until_win"
                        /\ standalone.waiting /\ standalone.due
           events == IF sleeper.open /\ sleeper.reader /\ sleeper.due
                     THEN <<handle("event_set")>>
                     ELSE IF /\ backend = "wait_until_timerfd"
                             /\ standalone.open /\ standalone.waiting /\ standalone.due
                     THEN <<handle("on_ready")>>
                     ELSE IF signalled THEN <<handle("cancel_callback")>>
                     ELSE <<>>
           timers == IF sleeper.later = "due" THEN <<handle("create_task")>> ELSE <<>>
       IN  /\ ready' = ready \o events \o timers
           /\ sleeper' = [sleeper EXCEPT !.later = IF @ = "due" THEN "fired" ELSE @]
           /\ standalone' = IF signalled
                            THEN [standalone EXCEPT !.fut = "result", !.waiting = FALSE]
                            ELSE standalone
    /\ ntodo' = Len(ready')
    /\ ntodo' > 0
    /\ UNCHANGED packageVars

----------------------------------------------------------------------------

\* Nothing called yet: nothing open, nothing registered, nothing queued.
Constructed ==
    /\ conv = <<>>
    /\ sleeper = SleeperInit
    /\ standalone = StandaloneInit
    /\ ntodo = 0
    /\ calls = 0
    /\ crashed = FALSE
    /\ ready = <<>>
    /\ loopPc = [w |-> 0, pc |-> "idle"]
    /\ wt = [w \in Waits |-> WtInit]
    /\ lx = [w \in Waits |-> LxInit]
    /\ fdOpen = {}
    /\ readers = [fd \in Fds |-> 0]
    /\ tc = [w \in Waits |-> TcInit]
    /\ contexts = {}
    /\ nt = [w \in Waits |-> NtInit]
    /\ wn = [w \in Waits |-> WnInit]
    /\ dw = [w \in Waits |-> DwInit]

\* The state after import, before the first call; stamps are the timestamps
\* a conversion function may be handed.
Start(stamps, tzless) ==
    /\ platform \in Platforms
    /\ backend \in Callable(platform)
    /\ naive \in tzless
    /\ ts \in stamps
    /\ Constructed

\* The wait actions take of the target only whether it is already past; the
\* conversion of a timestamp is the subject of ConvSpec, a target without
\* tzinfo that of EntrySpec.
Init == Start({Epoch}, {FALSE})

Linux ==
    \/ \E w \in Waits, t \in BOOLEAN, o \in LinuxOutcomes : LinuxWaitUntil(w, t, o)
    \/ \E w \in Waits : LinuxOnReady(w)
    \/ \E w \in Waits : LinuxDuplicate(w)
    \/ LinuxCleanupCallback

TimerCreate ==
    \/ \E w \in Waits, t \in BOOLEAN, o \in TcOutcomes : TcWaitUntil(w, t, o)
    \/ \E w \in Waits : TcExpire(w)
    \/ \E w \in Waits : TcDuplicate(w)
    \/ \E k \in Waits : TcLookup(k)
    \/ \E k \in Waits : TcOnTimerCheck(k)
    \/ \E k \in Waits : TcOnTimerPost(k)
    \/ TcResolve
    \/ TcOnDone

Windows ==
    \/ \E w \in Waits, t \in BOOLEAN, o \in WinOutcomes : WinWaitUntil(w, t, o)
    \/ \E w \in Waits : WinSignalled(w)
    \/ WinCleanupCallback

Darwin ==
    \/ \E w \in Waits, t \in BOOLEAN, o \in DarwinOutcomes : DarwinWaitUntil(w, t, o)
    \/ \E w \in Waits : DarwinEvent(w)
    \/ \E w \in Waits : DarwinDuplicate(w)
    \/ \E w \in Waits : DarwinCollect(w)
    \/ \E w \in Waits : DarwinEvPost(w)
    \/ \E w \in Waits : DarwinEvCheck(w)
    \/ \E w \in Waits : DarwinEvCancel(w)
    \/ \E w \in Waits : DarwinCancelHandler(w)
    \/ DarwinSetResult
    \/ DarwinCleanup
    \/ DarwinLoopCancel

Caller ==
    \/ \E w \in Waits : Cancel(w)
    \/ \E w \in Waits : Drop(w)

Clock == \E w \in Waits : Tick(w)

Public == \E w \in Waits : PublicUnsupported(w)

Next == Linux \/ TimerCreate \/ Windows \/ Darwin \/ Public \/ Caller \/ Clock

Spec == Init /\ [][Next]_vars

\* The conversion functions applied to every timestamp of Timestamps.
ConvInit == Start(Timestamps, {FALSE})

ConvNext ==
    \/ ProgramTimerfdSpec
    \/ TimestampToSpec
    \/ ProgramTimerSpec
    \/ UnixToWindowsTicks

ConvSpec == ConvInit /\ [][ConvNext]_vars

\* The package's wait_until, called with aware and with naive targets.  No
\* statement of __init__.wait_until or of the wait_until and the conversion it
\* delegates to reads target_time.tzinfo: datetime.timestamp() takes a naive
\* value as local time and returns a float, so the steps are those of Next.
EntryInit ==
    /\ Start({Epoch}, BOOLEAN)
    /\ backend = impl(platform)

EntryNext == Linux \/ Windows \/ Public \/ Caller \/ Clock

EntrySpec == EntryInit /\ [][EntryNext]_vars

\* One of the modules beside the package, run on its platform by its main().
LegacyInit ==
    /\ backend \in LegacyModules
    /\ platform = IF backend = "wait_until_win" THEN win32 ELSE linux
    /\ naive = FALSE
    /\ ts = Epoch
    /\ Constructed

Sleeper ==
    \/ \E nce \in BOOLEAN : SleeperWaitUntil(nce)
    \/ SleeperReader
    \/ SleeperEventWait
    \/ SleeperWaitTimerfd
    \/ SleeperCreateTask
    \/ SleeperCancel
    \/ SleeperExpire
    \/ SleeperLaterDue

Standalone ==
    \/ \E o \in {"create", "arm", "ok"} : TimerfdWaitUntil(o)
    \/ TimerfdOnReady
    \/ TimerfdCancelCallback
    \/ \E o \in {"create", "arm", "ok"} : WinStandaloneWaitUntil(o)
    \/ WinCancelCallback
    \/ StandaloneExpire
    \/ StandalonePostCancel
    \/ StandaloneCancel

LegacyNext == Sleeper \/ Standalone \/ SkipCancelled \/ RunOnce

LegacySpec == LegacyInit /\ [][LegacyNext]_vars

\* A callback or reader that the scheduler thread runs.
LoopStep ==
    \/ \E w \in Waits : LinuxOnReady(w)
    \/ LinuxCleanupCallback
    \/ TcResolve
    \/ TcOnDone
    \/ WinCleanupCallback
    \/ DarwinSetResult
    \/ DarwinCleanup
    \/ DarwinLoopCancel

\* A step of a native timer or of a thread the operating system runs for it.
NativeStep ==
    \E w \in Waits :
        \/ TcExpire(w)
        \/ TcLookup(w)
        \/ TcOnTimerCheck(w)
        \/ TcOnTimerPost(w)
        \/ WinSignalled(w)
        \/ DarwinEvent(w)
        \/ DarwinEvPost(w)
        \/ DarwinEvCheck(w)
        \/ DarwinEvCancel(w)
        \/ DarwinCancelHandler(w)

\* The scheduler thread keeps running what is ready, native timers and their
\* threads go on, and the wall clock reaches every target.  The caller's
\* calls, cancels and drops are not forced.
Fairness ==
    /\ WF_vars(Clock)
    /\ WF_vars(LoopStep)
    /\ WF_vars(NativeStep)

FairSpec == Spec /\ Fairness

----------------------------------------------------------------------------
(* Properties.                                                             *)

\* The wait of slot w is over and every callback posted for it has run.
Settled(w) ==
    /\ wt[w].st = "returned"
    /\ done(wt[w].fut)
    /\ wt[w].cleaned
    /\ Unreferenced(w)

\* C1: a wait has one terminal outcome: a call that raised has no future, no
\* set_result is ever applied to a done future, and once the future is done
\* its outcome stays as it is for as long as the wait exists.
C1_OneTerminalOutcome ==
    /\ [](\A w \in Waits :
            /\ ~wt[w].invalid
            /\ wt[w].st = "raised" => wt[w].fut = "none"
            /\ wt[w].st = "returned" => wt[w].fut \in {"pending", "result", "cancelled"})
    /\ [][\A w \in Waits :
            done(wt[w].fut) /\ wt'[w].st # "idle" => wt'[w].fut = wt[w].fut]_vars

\* A cancelled wait whose native timer fired all the same, with every
\* callback of it run.
C1_Witness ==
    \E w \in Waits :
        /\ wt[w].fut = "cancelled"
        /\ NativeFired(w)
        /\ Settled(w)

\* C2: in _linux, _windows and _timer_create, a cancel() made before the
\* wait's native timer fired leaves the future cancelled.
C2_EarlyCancelIsCancelled ==
    \A w \in Waits :
        backend \in {"linux", "windows", "timer_create"} /\ wt[w].cancelReq = "early"
            => wt[w].fut = "cancelled"

\* C3 as stated: wherever the future is seen cancelled, the native resource
\* is no longer open.
C3_ReleasedWhenCancelledSeen ==
    \A w \in Waits : wt[w].fut = "cancelled" => ~ResourceOpen(w)

\* C3 amended: once the done-callback of a cancelled future has run, the
\* native resource of _linux, _timer_create and _windows is released and the
\* _darwin context has its cancel flag set.
C3_ReleasedAfterDoneCallback ==
    \A w \in Waits :
        wt[w].fut = "cancelled" /\ wt[w].cleaned
            => IF backend = "darwin" THEN dw[w].cancelled ELSE ~ResourceOpen(w)

\* An early cancel whose done-callback has run.
C3_Witness ==
    \E w \in Waits :
        /\ wt[w].fut = "cancelled"
        /\ wt[w].cancelReq = "early"
        /\ wt[w].cleaned
        /\ ~NativeFired(w)

\* C4: _linux closes a created descriptor at most once, never while another
\* close is still to come, and exactly once when the call raised or the wait
\* is settled.
C4_FdClosedOnce ==
    \A w \in Waits :
        backend = "linux" /\ lx[w].fd # 0
            => /\ lx[w].closes <= 1
               /\ lx[w].open <=> lx[w].closes = 0
               /\ lx[w].open => lx[w].fd \in fdOpen
               /\ wt[w].st = "raised" \/ Settled(w) => lx[w].closes = 1

\* Readiness arrived after cancel() and before the done-callback: _on_ready
\* closed the descriptor and _cleanup_callback is still queued.
C4_Witness ==
    \E w \in Waits :
        /\ backend = "linux"
        /\ wt[w].fut = "cancelled"
        /\ ~wt[w].cleaned
        /\ HasCallback(w)
        /\ lx[w].closes = 1

\* C5: in _darwin the source is released and the context pointer dropped at
\* most once, only by the cancel handler and only after dispatch_source_cancel
\* was called; a settled wait has been released exactly once.
C5_ReleaseOnlyInCancelHandler ==
    \A w \in Waits :
        backend = "darwin" /\ dw[w].timer # "none"
            => /\ dw[w].releases <= 1
               /\ dw[w].releases = 1 <=> dw[w].timer = "None"
               /\ dw[w].timer = "None" => dw[w].chDone
               /\ ~dw[w].ptr => dw[w].chDone
               /\ dw[w].chDone => dw[w].cancels > 0
               /\ Settled(w) => dw[w].releases = 1

\* C6: in _timer_create, timer_delete is called at most once per context and
\* only for a created timer, the registry entry is removed at most once and
\* exactly once when the call raised or the wait is settled, and _closed
\* never goes back to false.
C6_DeleteAndPopOnce ==
    /\ [](\A w \in Waits :
            backend = "timer_create" /\ wt[w].st # "idle"
                => /\ tc[w].deletes <= 1
                   /\ tc[w].deletes = 1 <=> tc[w].ktimer = "deleted"
                   /\ tc[w].pops <= 1
                   /\ tc[w].pops = 1 <=> tc[w].closed
                   /\ tc[w].closed <=> w \notin contexts
                   /\ wt[w].st = "raised" \/ Settled(w) => tc[w].pops = 1)
    /\ [][\A w \in Waits :
            tc[w].closed /\ wt'[w].st # "idle" => tc'[w].closed]_vars

\* timer_settime failed: start's cleanup deleted the timer and wait_until's
\* cleanup ran again.
C6_Witness ==
    \E w \in Waits :
        /\ backend = "timer_create"
        /\ wt[w].failure = "arm"
        /\ tc[w].deletes = 1
        /\ tc[w].pops = 1

\* C7: in _windows a created handle is closed at most once, and exactly once
\* when the call raised or the wait is settled.
C7_HandleClosedOnce ==
    \A w \in Waits :
        backend = "windows" /\ wn[w].handle # "none"
            => /\ wn[w].closes <= 1
               /\ wt[w].st = "raised" \/ Settled(w) => wn[w].closes = 1

C9_ResultOnlyAfterExpiry ==
    \A w \in Waits :
        wt[w].fut = "result" => NativeFired(w) /\ wt[w].due

C12_WaitsAreIndependent ==
    \A w \in Waits :
        wt[w].st = "returned" /\ ~NativeFired(w) /\ wt[w].cancelReq = "none"
            => /\ wt[w].fut = "pending"
               /\ ~wt[w].cleaned
               /\ ResourceOpen(w)

\* Every slot is free or holds a settled wait, and no notification thread is
\* in flight.
AllSettled ==
    /\ \A w \in Waits : wt[w].st = "idle" \/ Settled(w)
    /\ \A k \in Waits : nt[k].start = 0
    /\ ready = <<>>

\* C14: once every wait that was armed is settled and every posted callback
\* and native callback has run, nothing is left: no open descriptor, no
\* registered reader, no registry entry, and no wait with an open timer,
\* handle or source.
C14_NoLeak ==
    AllSettled
        => /\ fdOpen = {}
           /\ \A fd \in Fds : readers[fd] = 0
           /\ contexts = {}
           /\ \A w \in Waits :
                /\ ~ResourceOpen(w)
                /\ ~wn[w].registered
                /\ wt[w].st = "returned" /\ backend = "timer_create" => tc[w].deletes = 1
                /\ wt[w].st = "returned" /\ backend = "darwin" => dw[w].releases = 1

\* C15: in _timer_create and _darwin a future gets its result only in a step
\* of the scheduler thread that runs a callback posted for that wait with
\* call_soon_threadsafe (_resolve, _set_result); no foreign thread moves in
\* that step.
C15_ResultSetOnSchedulerThread ==
    [][\A w \in Waits :
         backend \in {"timer_create", "darwin"}
         /\ wt[w].fut # "result" /\ wt'[w].fut = "result"
            => /\ LoopIdle
               /\ ready # <<>>
               /\ Head(ready).w = w
               /\ Head(ready).fn \in {"resolve", "set_result"}
               /\ SubSeq(ready', 1, Len(ready) - 1) = Tail(ready)
               /\ nt' = nt
               /\ \A v \in Waits : dw'[v].pc = dw[v].pc]_vars

\* A wait of one of the two backends resolved with a result.
C15_Witness ==
    \E w \in Waits :
        /\ backend \in {"timer_create", "darwin"}
        /\ wt[w].fut = "result"
        /\ wt[w].cancelReq = "none"
        /\ NativeFired(w)

\* C17: in _timer_create a completion whose key is not in _contexts ends in
\* _timer_callback: the step posts nothing, changes no future, no context and
\* no registry entry, and no thread goes on to _on_timer.
C17_LostTokenSwallowed ==
    [][\A k \in Waits :
         backend = "timer_create" /\ k \notin contexts
         /\ nt'[k].start = nt[k].start - 1
            => /\ ready' = ready
               /\ wt' = wt
               /\ tc' = tc
               /\ contexts' = contexts
               /\ nt'[k].got = nt[k].got
               /\ nt'[k].checked = nt[k].checked
               /\ crashed' = crashed]_vars

\* A completion is in flight for a key whose context was cleaned up and
\* whose address no newer context has taken.
C17_Witness ==
    \E k \in Waits :
        /\ backend = "timer_create"
        /\ nt[k].start > 0
        /\ k \notin contexts
        /\ tc[k].closed

\* The done-callback of slot w is queued n times.
CleanupsQueued(w) ==
    Cardinality({i \in 1 .. Len(ready) : ready[i].w = w /\ ready[i].fn = "cleanup"})

\* C13: for a wait that received a second native completion, no set_result
\* ever hit the done future, its done-callback is scheduled once and not
\* again after it ran, the native resource is released at most once, and the
\* outcome it had when done stays as it is.
C13_DuplicateCompletionIsNoOp ==
    /\ [](\A w \in Waits :
            wt[w].dup
                => /\ ~wt[w].invalid
                   /\ CleanupsQueued(w) <= 1
                   /\ wt[w].cleaned => CleanupsQueued(w) = 0
                   /\ lx[w].closes <= 1
                   /\ tc[w].deletes <= 1
                   /\ tc[w].pops <= 1
                   /\ dw[w].releases <= 1)
    /\ [][\A w \in Waits :
            (wt[w].dup \/ wt'[w].dup) /\ done(wt[w].fut) /\ wt'[w].st # "idle"
                => wt'[w].fut = wt[w].fut]_vars

\* A second completion was delivered for a resolved wait and everything it
\* started has run.
C13_Witness ==
    \E w \in Waits :
        /\ wt[w].dup
        /\ Settled(w)
        /\ nt[w].start = 0

\* C18: the module behind the public wait_until is fixed at import: _linux
\* when sys.platform begins with linux, _windows for win32 and cygwin, none
\* anywhere else; with none, every call raises and leaves no future, no native
\* resource, no reader, no registry entry and no callback.
C18_PlatformSelection ==
    /\ [](/\ backend \notin {"timer_create", "darwin"}
             => backend = (IF SubSeq(platform, 1, 5) = linux THEN "linux"
                           ELSE IF platform \in {win32, cygwin} THEN "windows"
                           ELSE "none")
          /\ backend = "none"
             => /\ ready = <<>>
                /\ fdOpen = {}
                /\ contexts = {}
                /\ \A w \in Waits :
                     /\ wt[w].st \in {"idle", "raised"}
                     /\ wt[w].st = "raised" => wt[w].failure = "unsupported"
                     /\ wt[w].fut = "none"
                     /\ lx[w] = LxInit /\ tc[w] = TcInit
                     /\ wn[w] = WnInit /\ dw[w] = DwInit)
    /\ [][backend' = backend /\ platform' = platform]_vars

\* A call on a platform without backend has raised.
C18_Witness ==
    /\ backend = "none"
    /\ \E w \in Waits : wt[w].st = "raised" /\ wt[w].failure = "unsupported"

\* round(|t| * per_second), as whole seconds and a rest in 0 .. per_second - 1.
RoundedMagnitude(t, per_second) ==
    LET r == round_half_even(t.num, Den \div per_second)
    IN  IF r = per_second THEN [s |-> t.sec + 1, r |-> 0] ELSE [s |-> t.sec, r |-> r]

\* round(t * per_second) as s * per_second + r with 0 <= r < per_second.
Rounded(t, per_second) ==
    LET m == RoundedMagnitude(t, per_second)
    IN  IF ~t.neg \/ (m.s = 0 /\ m.r = 0) THEN m
        ELSE IF m.r = 0 THEN [s |-> 0 - m.s, r |-> 0]
        ELSE [s |-> 0 - m.s - 1, r |-> per_second - m.r]

\* C19: the (seconds, nanoseconds) of _program_timerfd, _timestamp_to_spec
\* and _program_timer have 0 <= nanoseconds < 10^9 and
\* seconds * 10^9 + nanoseconds equal to the timestamp rounded to the nearest
\* nanosecond, for timestamps on both sides of the epoch.
C19_SecondsAndNanoseconds ==
    backend \in {"linux", "timer_create", "darwin"} /\ conv # <<>>
        => /\ 0 <= conv[1].nsec
           /\ conv[1].nsec < NANO
           /\ conv[1].sec = Rounded(ts, NANO).s
           /\ conv[1].nsec = Rounded(ts, NANO).r

\* C20: _unix_to_windows_ticks returns round(t * 10^7) plus the epoch
\* difference in ticks.
C20_WindowsTicks ==
    backend = "windows" /\ conv # <<>>
        => /\ conv[1].epochs = 1
           /\ conv[1].ticks = Rounded(ts, TICK).s * TICK + Rounded(ts, TICK).r

\* C11: the public wait_until rejects a target_time without tzinfo with a
\* configuration error: no native timer is created for it and no future is
\* returned.
C11_NaiveTargetRejected ==
    naive
        => /\ fdOpen = {}
           /\ \A w \in Waits :
                /\ wt[w].st # "returned"
                /\ wt[w].fut = "none"
                /\ wt[w].st = "raised" => wt[w].failure \in {"naive", "unsupported"}
                /\ ~ResourceOpen(w)

\* C16: no callback on a foreign thread reads a context whose teardown has
\* begun.  In _darwin the context behind a live source's pointer is never
\* freed, and a handler runs only on a source that is not yet released, with
\* its context pointer held; in _timer_create a notification thread holds a
\* context only if that context's own timer has expired, so a callback that
\* arrives after cleanup() has found no registry entry.
C16_NoCallbackAfterTeardown ==
    \A w \in Waits :
        /\ backend = "darwin"
              => /\ ~dw[w].dangling
                 /\ dw[w].pc # "idle" => dw[w].ptr /\ dw[w].timer = "live"
        /\ backend = "timer_create"
              => (nt[w].got > 0 \/ nt[w].checked > 0 => tc[w].fired)

\* The loop is about to run a _resolve posted for a context that cleanup has
\* already closed.
ResolveAfterCleanup ==
    /\ HeadIs("resolve")
    /\ tc[Head(ready).w].closed

\* C21: in _timer_create, cleanup sets _closed before it calls timer_delete
\* and before it removes the registry entry; _on_timer goes past its check
\* only with _closed unset; a _resolve that runs after cleanup changes neither
\* the future nor the context; and the future of a closed context never gets
\* a result.
C21_ClosedBeforeDelete ==
    /\ [](\A w \in Waits :
            backend = "timer_create"
                => /\ ~tc[w].unflagged
                   /\ tc[w].deletes > 0 \/ tc[w].pops > 0 => tc[w].closed)
    /\ [][backend = "timer_create"
            => /\ \A k \in Waits :
                    nt'[k].checked > nt[k].checked => ~tc[k].closed
               /\ \A w \in Waits :
                    tc[w].closed /\ wt[w].fut # "result" => wt'[w].fut # "result"
               /\ ResolveAfterCleanup /\ ready' = Tail(ready)
                    => wt' = wt /\ tc' = tc /\ contexts' = contexts]_vars

\* A cancelled wait whose timer had expired: cleanup has run, and a _resolve
\* posted before it is still in the queue.
C21_Witness ==
    /\ backend = "timer_create"
    /\ ResolveAfterCleanup
    /\ wt[Head(ready).w].fut = "cancelled"
    /\ tc[Head(ready).w].deletes = 1

\* A _set_result posted for slot w is in the loop's queue.
SetResultQueued(w) ==
    \E i \in 1 .. Len(ready) : ready[i] = [w |-> w, fn |-> "set_result"]

\* C22: in _darwin, an event handler that finds the future not done posts
\* _set_result before it reaches cancel_timer, and one that finds it done
\* posts nothing; when a handler returns, cancellation of the source has
\* been requested; and the source's timer fires only while
\* no cancellation has been requested, so not again after a handled event.
C22_PostThenCancel ==
    /\ [](\A w \in Waits :
            backend = "darwin"
                => /\ dw[w].pc \in {"ct_check", "ct_write"}
                        => done(wt[w].fut) \/ SetResultQueued(w)
                   /\ dw[w].evDone /\ dw[w].pc = "idle"
                        => dw[w].cancelled /\ dw[w].cancels > 0)
    /\ [][\A w \in Waits :
            backend = "darwin"
                => /\ dw[w].pc = "ev" /\ dw'[w].pc = "ct_check"
                        => ready' = IF done(wt[w].fut) THEN ready
                                    ELSE Append(ready, [w |-> w, fn |-> "set_result"])
                   /\ dw[w].pc # "idle" /\ dw'[w].pc = "idle"
                        => dw'[w].cancelled /\ dw'[w].cancels > 0
                   /\ ~dw[w].evDone /\ dw'[w].evDone
                        => dw[w].cancels = 0]_vars

\* The handler has posted _set_result for a pending future and has returned
\* after dispatch_source_cancel; the loop has not run the callback yet.
C22_Witness ==
    \E w \in Waits :
        /\ backend = "darwin"
        /\ dw[w].evDone
        /\ dw[w].pc = "idle"
        /\ dw[w].cancels = 1
        /\ wt[w].fut = "pending"
        /\ SetResultQueued(w)

\* C23: in _darwin, with cancel_timer running on the worker thread and on the
\* scheduler thread, dispatch_source_cancel is called at most once per context
\* and never with a timer that release() has set to None.
C23_CancelOnceAndNeverNone ==
    \A w \in Waits :
        backend = "darwin" => dw[w].cancels <= 1 /\ ~dw[w].cancelNone

\* C24: in _linux, for every wait whose call returned, the reader of its
\* descriptor is registered exactly while the descriptor is open; a
\* registered descriptor number is open and belongs to the registered wait;
\* _close_fd never closes a descriptor that is still registered; and the step
\* of the scheduler thread that sets the result also deregisters and closes.
C24_RegisteredIffOpen ==
    /\ [](backend = "linux"
            => /\ \A w \in Waits :
                    /\ wt[w].st = "returned"
                          => (lx[w].open <=> readers[lx[w].fd] = w)
                    /\ ~lx[w].registered
               /\ \A fd \in Fds :
                    readers[fd] # 0
                        => /\ fd \in fdOpen
                           /\ lx[readers[fd]].fd = fd
                           /\ lx[readers[fd]].open)
    /\ [][\A w \in Waits :
            backend = "linux" /\ wt[w].fut # "result" /\ wt'[w].fut = "result"
                => /\ LoopIdle
                   /\ lx[w].open
                   /\ ~lx'[w].open
                   /\ readers'[lx[w].fd] = 0
                   /\ lx[w].fd \notin fdOpen'
                   /\ \E i \in 1 .. Len(ready') : ready'[i] = [w |-> w, fn |-> "cleanup"]]_vars

\* Readiness was handled for one wait, whose descriptor number a later wait
\* has taken over and registered.
C24_Witness ==
    \E v, w \in Waits :
        /\ backend = "linux"
        /\ v # w
        /\ wt[v].fut = "result"
        /\ lx[v].closes = 1
        /\ lx[w].fd = lx[v].fd
        /\ lx[w].open
        /\ readers[lx[w].fd] = w

\* C25: a call of _linux.wait_until on a loop without add_reader or
\* remove_reader, or of _windows.wait_until on a loop without a proactor,
\* raises before a native timer is created: the call has no future, no
\* descriptor and no handle, and the step changes no descriptor, reader or
\* handle of any wait.
C25_PrecheckLeavesNothing ==
    /\ [](\A w \in Waits :
            wt[w].failure = "precheck"
                => /\ backend \in {"linux", "windows"}
                   /\ wt[w].st = "raised"
                   /\ wt[w].fut = "none"
                   /\ lx[w] = LxInit
                   /\ wn[w] = WnInit
                   /\ \A fd \in Fds : readers[fd] # w
                   /\ ~HasCallback(w))
    /\ [][\A w \in Waits :
            wt[w].failure # "precheck" /\ wt'[w].failure = "precheck"
                => /\ lx' = lx
                   /\ fdOpen' = fdOpen
                   /\ readers' = readers
                   /\ wn' = wn]_vars

\* A call failed its capability check while another wait holds its timer.
C25_Witness ==
    \E v, w \in Waits :
        /\ wt[w].failure = "precheck"
        /\ wt[v].st = "returned"
        /\ ResourceOpen(v)

\* C26: timerfd.Sleeper, for one wait_until call with either no_cancel_error
\* setting and any interleaving of the timer becoming ready, the event-wait
\* task completing, _wait_timerfd resuming and a concurrent cancel(): os.close
\* is called on the descriptor at most once, and once wait_until has ended it
\* was called exactly once, the descriptor is closed and its reader removed.
C26_DescriptorClosedOnce ==
    /\ sleeper.closes <= 1
    /\ sleeper.main \in {"returned", "cancelled", "oserror"} =>
          sleeper.closes = 1 /\ ~sleeper.open /\ ~sleeper.reader

\* C27: wait_until_timerfd.wait_until and wait_until_win.wait_until, for a
\* call that created and armed its native timer: os.close (CloseHandle) is
\* called on the descriptor (the handle) at most once, and once the returned
\* future is done, by the timer firing or by cancel(), and its callbacks have
\* run, it was called exactly once and the descriptor (the handle) is closed.
C27_ClosedOncePerOutcome ==
    standalone.st = "returned" =>
        /\ standalone.closes <= 1
        /\ (/\ done(standalone.fut)
            /\ \A i \in 1 .. Len(ready) : ready[i].fn \notin {"on_ready", "cancel_callback"})
           => standalone.closes = 1 /\ ~standalone.open

====
